---- MODULE Spec2Model ----
(***************************************************************************)
(* LoopController (src/unnamed/part_001): a run loop driven by an injected *)
(* frame-request function.  The controller's fields are the variables; the *)
(* methods start / stop / pause are operators on a record of those fields  *)
(* (so that a step callback can call them from inside a tick); the tick    *)
(* handler `step` is split at the points where it calls a registered step  *)
(* callback.                                                               *)
(***************************************************************************)
EXTENDS Integers, Sequences, FiniteSets, TLC

\* ---------------------------------------------------------------- bounds
MaxTime == 51
MaxRequests == 5
MaxSteps == 3

\* ------------------------------------------------------ program constants
INVALID_REQUEST_ID == -1
FRAMERATE_NUMERATOR == 1000
FRAMERATE_DENOMINATOR == 60
ALLOWED_OVERFLOW_FRAMES == 10

\* ------------------------------------------------------------ environment
\* Host clock increments between two observations of getCurrentTime(): one
\* within the overflow threshold of a one-frame budget, one beyond it.
Gaps == {17, 34}

\* Functions the owner may inject as requestFrame.  The controller always
\* cancels with the global cancelAnimationFrame.
FrameSources == {"requestAnimationFrame", "setTimeout"}

\* Values of the constructor's allowedOverflowFrames argument.
OverflowFrames == {1}

\* Step callbacks an owner registers, and the lists it registers them in.
StepConfigs ==
    { [u |-> <<"A", "B">>,         r |-> <<"A", "A">>],
      [u |-> <<"AddR", "DelU">>,   r |-> <<"A">>],
      [u |-> <<"DelR", "AddU">>,   r |-> <<"A", "B">>],
      [u |-> <<"Stop", "Start">>,  r |-> <<"A">>],
      [u |-> <<"Pause", "Start">>, r |-> <<"Pause">>],
      [u |-> <<"A">>,              r |-> <<"Throw">>],
      [u |-> <<"Throw", "A">>,     r |-> <<"B">>],
      [u |-> <<>>,                 r |-> <<>>] }

VARIABLES
    isRunning, isPaused, updateSteps, renderSteps,
    startTimestamp, lastTimestamp, elapsedTimeInMilliseconds,
    frameRequestId, requestFrame, allowedOverflowThreshold,
    now,          \* host clock, what getCurrentTime() returns
    scheduled,    \* handles of the callbacks pending with the frame source
    nextHandle,   \* the handle the frame source returns next
    tick,         \* activation record of step(): position and locals
    lastCall,     \* history: the last top-level call and how it ended
    invoked,      \* history: step callbacks invoked by the last tick
    observed,     \* history: the step lists at tick start / render start
    scenario      \* history: progress through the gaps 16, 16, 200, 16

vars == << isRunning, isPaused, updateSteps, renderSteps,
           startTimestamp, lastTimestamp, elapsedTimeInMilliseconds,
           frameRequestId, requestFrame, allowedOverflowThreshold,
           now, scheduled, nextHandle, tick, lastCall, invoked, observed,
           scenario >>

\* ------------------------------------------------------------- helpers
\* Math.round of a non-negative rational n/d.
Round(n, d) == (2 * n + d) \div (2 * d)

Threshold(allowedOverflowFrames) ==
    Round(allowedOverflowFrames * FRAMERATE_NUMERATOR, FRAMERATE_DENOMINATOR)

getCurrentTime == now

\* The controller object together with the frame source it talks to.
This ==
    [ isRunning |-> isRunning, isPaused |-> isPaused,
      updateSteps |-> updateSteps, renderSteps |-> renderSteps,
      startTimestamp |-> startTimestamp, lastTimestamp |-> lastTimestamp,
      elapsedTimeInMilliseconds |-> elapsedTimeInMilliseconds,
      frameRequestId |-> frameRequestId,
      scheduled |-> scheduled, nextHandle |-> nextHandle ]

Becomes(self) ==
    /\ isRunning' = self.isRunning
    /\ isPaused' = self.isPaused
    /\ updateSteps' = self.updateSteps
    /\ renderSteps' = self.renderSteps
    /\ startTimestamp' = self.startTimestamp
    /\ lastTimestamp' = self.lastTimestamp
    /\ elapsedTimeInMilliseconds' = self.elapsedTimeInMilliseconds
    /\ frameRequestId' = self.frameRequestId
    /\ scheduled' = self.scheduled
    /\ nextHandle' = self.nextHandle

\* Variant of the request that drops the handle the frame source returns.
RequestWithoutStoring(self) ==
    [self EXCEPT !.scheduled = @ \cup {self.nextHandle},
                 !.nextHandle = @ + 1]

\* this.frameRequestId = this.requestFrame(this.step)
RequestNextFrame(self) ==
    [self EXCEPT !.scheduled = @ \cup {self.nextHandle},
                 !.nextHandle = @ + 1,
                 !.frameRequestId = self.nextHandle]

\* cancelAnimationFrame(id): reaches a callback only if it was scheduled
\* with requestAnimationFrame.
cancelAnimationFrame(self, id) ==
    IF requestFrame = "requestAnimationFrame"
    THEN [self EXCEPT !.scheduled = @ \ {id}]
    ELSE self

\* --------------------------------------------------------------- methods
\* start() past its guard: request a frame, stamp, set the flags.
Started(self) ==
    LET requested == RequestNextFrame(self)
        currentTimestamp == getCurrentTime
    IN [requested EXCEPT
           !.startTimestamp = IF ~self.isPaused THEN currentTimestamp ELSE @,
           !.lastTimestamp = currentTimestamp,
           !.isPaused = FALSE,
           !.isRunning = TRUE]

\* Variants of start() with one slip each.
startUnguarded(self) == Started(self)

startRestamping(self) ==
    IF self.isRunning
    THEN self
    ELSE [Started(self) EXCEPT !.startTimestamp = getCurrentTime]

startResetting(self) ==
    IF self.isRunning
    THEN self
    ELSE [Started(self) EXCEPT
            !.elapsedTimeInMilliseconds = IF self.isPaused THEN @ ELSE 0]

start(self) ==
    IF self.isRunning
    THEN self
    ELSE Started(self)

\* Variant of stop() that also clears the run's bookkeeping.
stopResetting(self) ==
    IF ~self.isRunning \/ self.frameRequestId = INVALID_REQUEST_ID
    THEN self
    ELSE [cancelAnimationFrame(self, self.frameRequestId) EXCEPT
             !.frameRequestId = INVALID_REQUEST_ID,
             !.isRunning = FALSE,
             !.elapsedTimeInMilliseconds = 0,
             !.startTimestamp = 0]

stop(self) ==
    IF ~self.isRunning \/ self.frameRequestId = INVALID_REQUEST_ID
    THEN self
    ELSE [cancelAnimationFrame(self, self.frameRequestId) EXCEPT
             !.frameRequestId = INVALID_REQUEST_ID,
             !.isRunning = FALSE]

\* Variant of pause() without its guard.
pauseUnguarded(self) == [stop(self) EXCEPT !.isPaused = TRUE]

\* Variant of pause() that only sets the flag.
pauseWithoutStop(self) ==
    IF ~self.isRunning \/ self.isPaused
    THEN self
    ELSE [self EXCEPT !.isPaused = TRUE]

pause(self) ==
    IF ~self.isRunning \/ self.isPaused
    THEN self
    ELSE [stop(self) EXCEPT !.isPaused = TRUE]

\* ------------------------------------------------------- step callbacks
\* What a registered callback does to the controller when it is invoked.
\* "A" and "B" only do work of their own; the others manage the loop or the
\* step lists "directly on the property", as the class documents.
Calls(cb, self) ==
    CASE cb = "Stop"  -> stop(self)
      [] cb = "Pause" -> pause(self)
      [] cb = "Start" -> start(self)
      [] cb = "AddU"  -> IF Len(self.updateSteps) < MaxSteps
                         THEN [self EXCEPT !.updateSteps = Append(@, "B")]
                         ELSE self
      [] cb = "DelU"  -> IF self.updateSteps # <<>>
                         THEN [self EXCEPT !.updateSteps = Tail(@)]
                         ELSE self
      [] cb = "AddR"  -> IF Len(self.renderSteps) < MaxSteps
                         THEN [self EXCEPT !.renderSteps = Append(@, "B")]
                         ELSE self
      [] cb = "DelR"  -> IF self.renderSteps # <<>>
                         THEN [self EXCEPT !.renderSteps = Tail(@)]
                         ELSE self
      [] OTHER        -> self

Throws(cb) == cb = "Throw"

\* ------------------------------------------------------------- the tick
IdleTick ==
    [pc |-> "idle", currentTimestamp |-> 0, elapsedTime |-> 0,
     steps |-> <<>>, i |-> 0]

Reverse(s) == [k \in 1..Len(s) |-> s[Len(s) + 1 - k]]

\* Variants of the iteration: back to front; or over the live list.
stepsReversed(self, t) == Reverse(t.steps)

stepsLive(self, t) ==
    IF t.pc = "update" THEN self.updateSteps ELSE self.renderSteps

\* The list a phase iterates: the copy `steps` made when the phase began.
steps(self, t) == t.steps

\* End of step(): this.lastTimestamp = currentTimestamp
Finish(self, t) ==
    [self |-> [self EXCEPT !.lastTimestamp = t.currentTimestamp],
     tick |-> IdleTick, outcome |-> "ran"]

\* render(): copy renderSteps, then call each copy entry in order.
render(self, t) ==
    IF self.renderSteps = <<>>
    THEN Finish(self, t)
    ELSE [self |-> self,
          tick |-> [t EXCEPT !.pc = "render", !.steps = self.renderSteps, !.i = 1],
          outcome |-> "running"]

\* update(elapsedTime): copy updateSteps, then call each copy entry in order;
\* step() calls render() when update() returns.
update(self, t) ==
    IF self.updateSteps = <<>>
    THEN render(self, t)
    ELSE [self |-> self,
          tick |-> [t EXCEPT !.pc = "update", !.steps = self.updateSteps, !.i = 1],
          outcome |-> "running"]

\* step()'s entry guard, and a variant that only looks at the paused flag.
PausedOnly(self) == self.isPaused

NotRunning(self) == ~self.isRunning \/ self.isPaused

\* step()'s overflow test, a variant that never finds an overflow and one
\* that already finds it at the threshold.
OverflowsNever(elapsedTime) == FALSE

OverflowsAtThreshold(elapsedTime) == elapsedTime >= allowedOverflowThreshold

Overflows(elapsedTime) == elapsedTime > allowedOverflowThreshold

\* step()'s dead-frame branch, and a variant that returns without stamping.
DiscardUnstamped(requested, currentTimestamp) ==
    [self |-> requested, tick |-> IdleTick, outcome |-> "dead"]

DiscardAndDrop(requested, currentTimestamp) ==
    [self |-> [requested EXCEPT !.lastTimestamp = currentTimestamp,
                                !.scheduled = @ \ {requested.frameRequestId}],
     tick |-> IdleTick, outcome |-> "dead"]

Discard(requested, currentTimestamp) ==
    [self |-> [requested EXCEPT !.lastTimestamp = currentTimestamp],
     tick |-> IdleTick, outcome |-> "dead"]

\* step(), from its entry up to the first call of a registered callback.
step(self) ==
    IF NotRunning(self)
    THEN [self |-> self, tick |-> IdleTick, outcome |-> "stale"]
    ELSE LET requested == RequestNextFrame(self)
             currentTimestamp == getCurrentTime
             elapsedTime == currentTimestamp - self.lastTimestamp
         IN IF Overflows(elapsedTime)
            THEN Discard(requested, currentTimestamp)
            ELSE update(
                   [requested EXCEPT !.elapsedTimeInMilliseconds = @ + elapsedTime],
                   [IdleTick EXCEPT !.currentTimestamp = currentTimestamp,
                                    !.elapsedTime = elapsedTime])

\* step(), after callback t.i of the running phase has returned into `self`.
Return(self, t) ==
    IF t.i + 1 <= Len(steps(self, t))
    THEN [self |-> self, tick |-> [t EXCEPT !.i = @ + 1], outcome |-> "running"]
    ELSE IF t.pc = "update" THEN render(self, t) ELSE Finish(self, t)

\* ------------------------------------------------------ scenario monitor
\* The concrete scenario: a controller built with the default
\* allowedOverflowFrames, started once, then ticks at these gaps since
\* lastTimestamp.  scenario.n - 1 is the number of scenario ticks received,
\* scenario.t the timestamp of the latest one.
ScenarioGaps == <<16, 16, 200, 16>>
ScenarioOff == [n |-> -1, t |-> 0]

ScenarioAfterStart ==
    IF scenario.n = 0 /\ ~isRunning
       /\ allowedOverflowThreshold = Threshold(ALLOWED_OVERFLOW_FRAMES)
    THEN [n |-> 1, t |-> now]
    ELSE ScenarioOff

ScenarioAfterTick ==
    IF /\ scenario.n \in 1..Len(ScenarioGaps)
       /\ isRunning /\ ~isPaused
       /\ now - lastTimestamp = ScenarioGaps[scenario.n]
    THEN [n |-> scenario.n + 1, t |-> now]
    ELSE ScenarioOff

\* ---------------------------------------------------------------- Init
\* The object after construction: the field initialisers, then the
\* constructor's two assignments.
Constructed(allowedOverflowFrames) ==
    /\ isRunning = FALSE
    /\ isPaused = FALSE
    /\ \E c \in StepConfigs : updateSteps = c.u /\ renderSteps = c.r
    /\ startTimestamp = 0
    /\ lastTimestamp = 0
    /\ elapsedTimeInMilliseconds = 0
    /\ frameRequestId = INVALID_REQUEST_ID
    /\ requestFrame \in FrameSources
    /\ allowedOverflowThreshold = Threshold(allowedOverflowFrames)
    /\ now = 0
    /\ scheduled = {}
    /\ nextHandle = 1
    /\ tick = IdleTick
    /\ lastCall = [op |-> "new", outcome |-> "constructed"]
    /\ invoked = <<>>
    /\ observed = [updateStepsAtTick |-> <<>>, renderStepsAtTick |-> <<>>,
                   renderStepsAtRender |-> <<>>]
    /\ scenario = [n |-> 0, t |-> 0]

Init == \E allowedOverflowFrames \in OverflowFrames :
            Constructed(allowedOverflowFrames)

InitScenario == Constructed(ALLOWED_OVERFLOW_FRAMES)

\* ------------------------------------------------------------- actions
fixed == << requestFrame, allowedOverflowThreshold >>

\* The host clock moves on by d (also while a step callback is executing).
Advance(d) ==
    /\ now' = now + d
    /\ UNCHANGED << isRunning, isPaused, updateSteps, renderSteps,
                    startTimestamp, lastTimestamp, elapsedTimeInMilliseconds,
                    frameRequestId, scheduled, nextHandle, tick, lastCall,
                    invoked, observed, scenario, fixed >>

Clock == \E d \in Gaps : now + d <= MaxTime /\ Advance(d)

\* The owner calls loop.start().
Start ==
    /\ tick.pc = "idle"
    /\ LET after == start(This)
       IN /\ after.nextHandle <= MaxRequests + 1
          /\ Becomes(after)
          /\ lastCall' = [op |-> "start",
                          outcome |-> IF isRunning THEN "ignored"
                                      ELSE IF isPaused THEN "resumed"
                                      ELSE "started"]
    /\ scenario' = ScenarioAfterStart
    /\ UNCHANGED << now, tick, invoked, observed, fixed >>

\* The owner calls loop.stop().
Stop ==
    /\ tick.pc = "idle"
    /\ Becomes(stop(This))
    /\ lastCall' = [op |-> "stop",
                    outcome |-> IF stop(This) = This THEN "ignored" ELSE "stopped"]
    /\ scenario' = ScenarioOff
    /\ UNCHANGED << now, tick, invoked, observed, fixed >>

\* The owner calls loop.pause().
Pause ==
    /\ tick.pc = "idle"
    /\ Becomes(pause(This))
    /\ lastCall' = [op |-> "pause",
                    outcome |-> IF pause(This) = This THEN "ignored" ELSE "paused"]
    /\ scenario' = ScenarioOff
    /\ UNCHANGED << now, tick, invoked, observed, fixed >>

\* The frame source fires a pending callback (it runs callbacks in the
\* order they were requested): step() runs up to its first callback
\* invocation (or to its end).
Fire ==
    /\ tick.pc = "idle"
    /\ \E h \in scheduled :
         LET r == step([This EXCEPT !.scheduled = @ \ {h}])
         IN /\ \A other \in scheduled : h <= other
            /\ r.self.nextHandle <= MaxRequests + 1
            /\ Becomes(r.self)
            /\ tick' = r.tick
            /\ lastCall' = [op |-> "step", outcome |-> r.outcome]
    /\ invoked' = <<>>
    /\ observed' = [updateStepsAtTick |-> updateSteps,
                    renderStepsAtTick |-> renderSteps,
                    renderStepsAtRender |-> renderSteps]
    /\ scenario' = ScenarioAfterTick
    /\ UNCHANGED << now, fixed >>

\* step() calls the next callback of the running phase and carries on to the
\* following invocation, to its end, or is aborted by the callback throwing.
Invoke ==
    /\ tick.pc \in {"update", "render"}
    /\ LET cb == steps(This, tick)[tick.i]
           call == IF tick.pc = "update"
                   THEN << "update", cb, tick.elapsedTime >>
                   ELSE << "render", cb >>
           r == Return(Calls(cb, This), tick)
       IN /\ invoked' = Append(invoked, call)
          /\ IF Throws(cb)
             THEN /\ tick' = IdleTick
                  /\ lastCall' = [op |-> "step", outcome |-> "threw"]
                  /\ UNCHANGED << isRunning, isPaused, updateSteps, renderSteps,
                                  startTimestamp, lastTimestamp,
                                  elapsedTimeInMilliseconds, frameRequestId,
                                  scheduled, nextHandle, observed >>
             ELSE /\ r.self.nextHandle <= MaxRequests + 1
                  /\ Becomes(r.self)
                  /\ tick' = r.tick
                  /\ lastCall' = [op |-> "step", outcome |-> r.outcome]
                  /\ observed' = IF tick.pc = "update" /\ r.tick.pc # "update"
                                 THEN [observed EXCEPT
                                         !.renderStepsAtRender = r.self.renderSteps]
                                 ELSE observed
    /\ UNCHANGED << now, scenario, fixed >>

Next == Clock \/ Start \/ Stop \/ Pause \/ Fire \/ Invoke

Spec == Init /\ [][Next]_vars

\* The scenario run: the first start(), then the clock and the frame source
\* produce exactly the scenario's ticks.
ClockScenario ==
    /\ scenario.n \in 1..Len(ScenarioGaps)
    /\ \E k \in 1..Len(ScenarioGaps) :
          /\ now + ScenarioGaps[k] <= lastTimestamp + ScenarioGaps[scenario.n]
          /\ Advance(ScenarioGaps[k])

StartScenario == Start /\ scenario'.n = 1

FireScenario == Fire /\ scenario'.n > 1

NextScenario == ClockScenario \/ StartScenario \/ FireScenario \/ Invoke

SpecScenario == InitScenario /\ [][NextScenario]_vars

\* Runs of start(), processed ticks, pause() and resuming start(), with
\* callbacks that leave the controller and the lists alone: no stop(), no
\* discarded tick, no aborted tick.
Entries(list) == {list[k] : k \in DOMAIN list}

InitPauseResume ==
    /\ Init
    /\ Entries(updateSteps) \cup Entries(renderSteps) \subseteq {"A", "B"}

FireProcessed == Fire /\ lastCall'.outcome \in {"running", "ran"}

NextPauseResume == Clock \/ Start \/ Pause \/ FireProcessed \/ Invoke

SpecPauseResume == InitPauseResume /\ [][NextPauseResume]_vars

\* Runs in which neither the owner nor a callback calls stop() or pause():
\* the first start() is the only one that takes effect.
InitUninterrupted ==
    /\ Init
    /\ (Entries(updateSteps) \cup Entries(renderSteps))
          \cap {"Stop", "Pause", "Start"} = {}

NextUninterrupted == Clock \/ Start \/ Fire \/ Invoke

SpecUninterrupted == InitUninterrupted /\ [][NextUninterrupted]_vars

\* ... in which the frame source eventually fires a pending callback and
\* every step callback eventually returns or throws.
SpecSelfPerpetuating ==
    SpecUninterrupted /\ WF_vars(Fire) /\ WF_vars(Invoke)

\* ================================================================ claims
controller == << isRunning, isPaused, startTimestamp, lastTimestamp,
                 elapsedTimeInMilliseconds, frameRequestId >>

\* C1: start() while Running changes nothing and requests no frame (the
\* fields, the pending callbacks and the frame source's next handle are all
\* as before), and from a non-Running state start();start() gives the same
\* fields and the same pending callbacks as one start().
C1_StartIdempotent ==
    /\ isRunning => start(This) = This
    /\ ~isRunning => start(start(This)) = start(This)
    /\ lastCall = [op |-> "start", outcome |-> "ignored"] => isRunning

C1_Witness ==
    /\ lastCall = [op |-> "start", outcome |-> "ignored"]
    /\ isRunning
    /\ Cardinality(scheduled) = 1
    /\ frameRequestId \in scheduled

\* C2: a start() made while Paused leaves startTimestamp as it was, clears
\* the paused flag, sets Running and does not lower the accumulator; and
\* startTimestamp is only ever changed by a start() made while neither
\* Running nor Paused, so between the first start() and the resume it stays
\* the original start time.
C2_ResumeKeepsStart ==
    [][ /\ (isPaused /\ lastCall'.op = "start")
           => /\ lastCall'.outcome = "resumed"
              /\ startTimestamp' = startTimestamp
              /\ lastTimestamp' = now
              /\ ~isPaused'
              /\ isRunning'
              /\ elapsedTimeInMilliseconds' >= elapsedTimeInMilliseconds
        /\ startTimestamp' # startTimestamp
           => ~isRunning /\ ~isPaused /\ startTimestamp' = now ]_vars

C2_Witness ==
    /\ lastCall = [op |-> "start", outcome |-> "resumed"]
    /\ startTimestamp < lastTimestamp
    /\ elapsedTimeInMilliseconds > 0
    /\ isRunning /\ ~isPaused

\* C3: a callback fired while the controller is not Running invokes no
\* step, requests no frame, and leaves frameRequestId (INVALID),
\* lastTimestamp, the accumulator and both flags unchanged.
C3_StaleCallbackHarmless ==
    [][ (Fire /\ ~isRunning)
        => /\ lastCall'.outcome = "stale"
           /\ invoked' = <<>>
           /\ tick'.pc = "idle"
           /\ nextHandle' = nextHandle
           /\ scheduled' \subseteq scheduled
           /\ frameRequestId = INVALID_REQUEST_ID
           /\ UNCHANGED controller ]_vars

C3_Witness ==
    /\ lastCall = [op |-> "step", outcome |-> "stale"]
    /\ ~isRunning
    /\ frameRequestId = INVALID_REQUEST_ID
    /\ elapsedTimeInMilliseconds > 0

\* C4: a tick processed while Running whose elapsed time exceeds
\* allowedOverflowThreshold invokes no update or render step, leaves the
\* accumulator unchanged and sets lastTimestamp to the tick's timestamp.
C4_OverflowDiscard ==
    [][ (Fire /\ isRunning /\ now - lastTimestamp > allowedOverflowThreshold)
        => /\ lastCall'.outcome = "dead"
           /\ invoked' = <<>>
           /\ tick'.pc = "idle"
           /\ elapsedTimeInMilliseconds' = elapsedTimeInMilliseconds
           /\ lastTimestamp' = now ]_vars

C4_Witness ==
    /\ lastCall = [op |-> "step", outcome |-> "dead"]
    /\ elapsedTimeInMilliseconds > 0
    /\ lastTimestamp = now
    /\ updateSteps # <<>>

\* What the last tick invoked, as <<phase, callback>> pairs, and the
\* callbacks it invoked in one phase.
Names(calls) == [k \in 1..Len(calls) |-> << calls[k][1], calls[k][2] >>]

Tagged(phase, list) == [k \in 1..Len(list) |-> << phase, list[k] >>]

InvokedIn(phase) ==
    LET sel == SelectSeq(invoked, LAMBDA c : c[1] = phase)
    IN [k \in 1..Len(sel) |-> sel[k][2]]

IsPrefix(a, b) == Len(a) <= Len(b) /\ SubSeq(b, 1, Len(a)) = a

TickRan == lastCall = [op |-> "step", outcome |-> "ran"]

\* C5: what a tick invokes is, at every moment, an initial part of: the
\* update steps in list order, then the render steps in list order (each
\* entry once per occurrence); no render step is invoked while an update
\* step is outstanding; a tick that returns normally has invoked all of it.
C5_UpdateThenRenderInOrder ==
    LET expected == Tagged("update", observed.updateStepsAtTick)
                    \o Tagged("render", observed.renderStepsAtRender)
    IN /\ IsPrefix(Names(invoked), expected)
       /\ tick.pc = "update" => Len(invoked) = tick.i - 1
       /\ tick.pc = "render" =>
             Len(invoked) = Len(observed.updateStepsAtTick) + tick.i - 1
       /\ TickRan => Names(invoked) = expected

C5_Witness ==
    /\ TickRan
    /\ Names(invoked) = << <<"update", "A">>, <<"update", "B">>,
                           <<"render", "A">>, <<"render", "A">> >>
    /\ nextHandle > 3

\* C6 as stated: a tick runs the update steps and the render steps that
\* were registered when the tick began.
C6_SnapshotAtTickStart ==
    TickRan => /\ InvokedIn("update") = observed.updateStepsAtTick
               /\ InvokedIn("render") = observed.renderStepsAtTick

\* C6 amended: each phase runs the entries its list had when that phase
\* began: the update phase those of updateSteps at tick start, the render
\* phase those of renderSteps when the last update step had returned.  A
\* change made to a list during its own phase does not change what that
\* phase still runs.
C6_SnapshotAtPhaseStart ==
    LET rest(list) == SubSeq(list, tick.i, Len(list))
    IN /\ tick.pc = "update" =>
             rest(steps(This, tick)) = rest(observed.updateStepsAtTick)
       /\ tick.pc = "render" =>
             rest(steps(This, tick)) = rest(observed.renderStepsAtRender)
       /\ TickRan => /\ InvokedIn("update") = observed.updateStepsAtTick
                     /\ InvokedIn("render") = observed.renderStepsAtRender

C6_Witness ==
    /\ TickRan
    /\ updateSteps # observed.updateStepsAtTick
    /\ observed.renderStepsAtRender # observed.renderStepsAtTick
    /\ InvokedIn("render") = observed.renderStepsAtRender

\* C7: between operations, frameRequestId differs from INVALID exactly when
\* a callback of the controller is scheduled with the frame source.
C7_RequestIdIffScheduled ==
    tick.pc = "idle" =>
        (frameRequestId # INVALID_REQUEST_ID <=> scheduled # {})

\* C8: isPaused and isRunning are never both true, between operations and
\* inside a tick.
C8_PausedNotRunning == ~(isPaused /\ isRunning)

C8_Witness ==
    /\ isPaused
    /\ ~isRunning
    /\ lastCall.op = "step"
    /\ invoked # <<>>

C10_Scenario ==
    LET processed == lastCall.op = "step"
                     /\ lastCall.outcome \in {"running", "ran", "threw"}
                     /\ (observed.updateStepsAtTick # <<>> /\ tick.pc = "idle"
                           => invoked # <<>>)
                     /\ \A k \in 1..Len(invoked) :
                           invoked[k][1] = "update" =>
                               invoked[k][3] = ScenarioGaps[scenario.n - 1]
    IN /\ allowedOverflowThreshold = 167
       /\ scenario.n = 2 => processed /\ elapsedTimeInMilliseconds = 16
       /\ scenario.n = 3 => processed /\ elapsedTimeInMilliseconds = 32
       /\ scenario.n = 4 => /\ lastCall = [op |-> "step", outcome |-> "dead"]
                            /\ invoked = <<>>
                            /\ elapsedTimeInMilliseconds = 32
                            /\ lastTimestamp = scenario.t
       /\ scenario.n = 5 => processed /\ elapsedTimeInMilliseconds = 48

C10_Witness ==
    /\ scenario.n = 5
    /\ TickRan
    /\ elapsedTimeInMilliseconds = 48
    /\ now = 248

\* C11: stop() called while Running clears isRunning, sets frameRequestId
\* to INVALID and leaves the accumulator, both timestamps, the paused flag
\* and both step lists as they were.
C11_StopOnlyStops ==
    [][ (Stop /\ isRunning)
        => /\ lastCall'.outcome = "stopped"
           /\ ~isRunning'
           /\ frameRequestId' = INVALID_REQUEST_ID
           /\ UNCHANGED << elapsedTimeInMilliseconds, startTimestamp,
                           lastTimestamp, isPaused, updateSteps,
                           renderSteps >> ]_vars

C11_Witness ==
    /\ lastCall = [op |-> "stop", outcome |-> "stopped"]
    /\ ~isRunning /\ ~isPaused
    /\ frameRequestId = INVALID_REQUEST_ID
    /\ elapsedTimeInMilliseconds > 0
    /\ startTimestamp > 0
    /\ lastTimestamp > startTimestamp

\* C12: while the controller is not Running, stop() and pause() change no
\* field and make no frame source call; so a start() after pause() in Idle
\* stamps a new startTimestamp, and a start() after stop() in Paused keeps
\* the old one.
C12_StopPauseIgnoredWhenNotRunning ==
    ~isRunning =>
        /\ stop(This) = This
        /\ pause(This) = This
        /\ ~isPaused => start(pause(This)).startTimestamp = now
        /\ isPaused => /\ stop(This).isPaused
                       /\ start(stop(This)).startTimestamp = startTimestamp

C12_Witness ==
    /\ lastCall = [op |-> "stop", outcome |-> "ignored"]
    /\ isPaused /\ ~isRunning
    /\ startTimestamp < now
    /\ elapsedTimeInMilliseconds > 0

\* C13: the accumulator counts only the current run; in particular, right
\* after a start() made from a stopped, non-paused state, when no tick has
\* been processed since that start(), it reads 0.
C13_ElapsedCountsCurrentRun ==
    lastCall = [op |-> "start", outcome |-> "started"]
        => elapsedTimeInMilliseconds = 0

\* C14: in a run of start(), processed ticks, pause(), a wait and a resuming
\* start(), after each tick the accumulator equals lastTimestamp -
\* startTimestamp (the time spent paused is included).
C14_ElapsedIncludesPauses ==
    TickRan => elapsedTimeInMilliseconds = lastTimestamp - startTimestamp

\* C15: a tick fired while Running requests exactly one frame and stores
\* its handle in frameRequestId before any step is invoked, also when the
\* tick is discarded; the steps themselves request nothing unless one calls
\* start().
C15_ScheduleAhead ==
    [][ /\ (Fire /\ isRunning)
           => /\ lastCall'.outcome \in {"dead", "running", "ran"}
              /\ nextHandle' = nextHandle + 1
              /\ frameRequestId' = nextHandle
              /\ nextHandle \in scheduled'
              /\ Cardinality(scheduled') = Cardinality(scheduled)
              /\ invoked' = <<>>
        /\ (Invoke /\ nextHandle' # nextHandle)
           => invoked'[Len(invoked')][2] = "Start" ]_vars

C15_Witness ==
    /\ lastCall = [op |-> "step", outcome |-> "dead"]
    /\ isRunning
    /\ frameRequestId = nextHandle - 1
    /\ frameRequestId \in scheduled
    /\ nextHandle > 2

\* C16: a tick processed while Running with 0 <= elapsed <=
\* allowedOverflowThreshold is not discarded: it adds elapsed to the
\* accumulator, every update step gets elapsed as its argument, every
\* render step gets no argument, and when the tick returns lastTimestamp is
\* the tick's timestamp.
C16_ProcessedTick ==
    [][ /\ (Fire /\ isRunning
              /\ now - lastTimestamp \in 0..allowedOverflowThreshold)
           => /\ lastCall'.outcome \in {"running", "ran"}
              /\ elapsedTimeInMilliseconds'
                   = elapsedTimeInMilliseconds + (now - lastTimestamp)
              /\ tick'.pc # "idle"
                   => /\ tick'.elapsedTime = now - lastTimestamp
                      /\ tick'.currentTimestamp = now
              /\ tick'.pc = "idle" => lastTimestamp' = now
        /\ Invoke
           => /\ \A k \in 1..Len(invoked') :
                    /\ invoked'[k][1] = "update"
                         => invoked'[k] = << "update", invoked'[k][2],
                                             tick.elapsedTime >>
                    /\ invoked'[k][1] = "render" => Len(invoked'[k]) = 2
              /\ elapsedTimeInMilliseconds' = elapsedTimeInMilliseconds
              /\ lastCall'.outcome = "ran"
                   => lastTimestamp' = tick.currentTimestamp ]_vars

C16_Witness ==
    /\ TickRan
    /\ invoked # <<>>
    /\ invoked[1] = << "update", "A", allowedOverflowThreshold >>
    /\ elapsedTimeInMilliseconds = 2 * allowedOverflowThreshold
    /\ lastTimestamp = now

\* C17: no step, also none made by a callback calling start(), stop() or
\* pause() inside a tick, lowers lastTimestamp.
C17_LastTimestampNeverDecreases ==
    [][lastTimestamp' >= lastTimestamp]_vars

\* C18: at most one callback of the controller is pending with the frame
\* source, whatever the order of start(), stop(), pause() and firings.
C18_AtMostOnePending ==
    Cardinality(scheduled) <= 1

\* C19: while neither stop() nor pause() is called and the frame source
\* fires every pending callback, the loop keeps itself going: a running
\* controller with no tick in progress always has a callback pending, a
\* dead-frame tick leaves the controller running with its new request
\* pending, and every request of a running controller is followed by a
\* further tick that makes the next request.
C19_SelfPerpetuating ==
    /\ [](isRunning /\ tick.pc = "idle" => frameRequestId \in scheduled)
    /\ [](lastCall = [op |-> "step", outcome |-> "dead"]
            => isRunning /\ frameRequestId \in scheduled)
    /\ \A n \in 2..MaxRequests :
         (isRunning /\ nextHandle = n) ~> (isRunning /\ nextHandle > n)

C19_Witness ==
    /\ TickRan
    /\ lastTimestamp - startTimestamp > elapsedTimeInMilliseconds
    /\ frameRequestId \in scheduled

\* C20: the accumulator never exceeds the host time gone by since the
\* first start(), also when a step throws and aborts its tick.
C20_NoIntervalCountedTwice ==
    lastCall.op # "new" => elapsedTimeInMilliseconds <= now - startTimestamp

====
